---- MODULE Spec2Model ----
(***************************************************************************)
(* Model of app.py, the NBA player scouting dashboard: the CSV store and   *)
(* its cached loader, the batch and single-candidate metric calculators,   *)
(* the tier classifier and the add / edit / delete handlers of main().     *)
(*                                                                         *)
(* Numbers.  A float is a record [kind, n, d]: NaN, +inf, -inf or the      *)
(* rational n/d in lowest terms (rounding error is not modelled).          *)
(* np.log is kept exact by measuring logarithms in units of ln 2 and       *)
(* drawing games_played from powers of two (and from values below 1).      *)
(* Text.  A string is a sequence of one-character strings, so that         *)
(* str.strip and the CSV round trip of a name are computed.                *)
(***************************************************************************)
EXTENDS Integers, Sequences, FiniteSets, TLC

(***************************************************************************)
(* Floating-point values                                                   *)
(***************************************************************************)
RECURSIVE GCD(_, _)
GCD(a, b) == IF b = 0 THEN a ELSE GCD(b, a % b)

Abs(x) == IF x < 0 THEN -x ELSE x

NaN == [kind |-> "nan", n |-> 0, d |-> 1]

PosInf == [kind |-> "inf", n |-> 1, d |-> 1]

NegInf == [kind |-> "inf", n |-> -1, d |-> 1]

\* the rational n/d (d # 0) in lowest terms with a positive denominator
Fin(n, d) ==
    LET s == IF d < 0 THEN -1 ELSE 1
        g == GCD(Abs(n), Abs(d))
    IN  [kind |-> "fin", n |-> (s * n) \div g, d |-> (s * d) \div g]

Num(v) == Fin(v, 1)

IsNaN(x) == x.kind = "nan"

IsFinite(x) == x.kind = "fin"

Sign(x) == IF x.n > 0 THEN 1 ELSE IF x.n < 0 THEN -1 ELSE 0

Inf(s) == IF s > 0 THEN PosInf ELSE NegInf

\* IEEE-754 addition
FAdd(x, y) ==
    IF IsNaN(x) \/ IsNaN(y) THEN NaN
    ELSE IF IsFinite(x) /\ IsFinite(y) THEN Fin(x.n * y.d + y.n * x.d, x.d * y.d)
    ELSE IF IsFinite(x) THEN y
    ELSE IF IsFinite(y) THEN x
    ELSE IF x = y THEN x ELSE NaN

FNeg(x) == IF IsNaN(x) THEN NaN ELSE [x EXCEPT !.n = -x.n]

FSub(x, y) == FAdd(x, FNeg(y))

\* IEEE-754 multiplication: 0 * inf is NaN
FMul(x, y) ==
    IF IsNaN(x) \/ IsNaN(y) THEN NaN
    ELSE IF IsFinite(x) /\ IsFinite(y) THEN Fin(x.n * y.n, x.d * y.d)
    ELSE IF Sign(x) = 0 \/ Sign(y) = 0 THEN NaN
    ELSE Inf(Sign(x) * Sign(y))

\* IEEE-754 division as numpy performs it on a float column: 0/0 is NaN and
\* x/0 is an infinity, neither raises
FDiv(x, y) ==
    IF IsNaN(x) \/ IsNaN(y) THEN NaN
    ELSE IF IsFinite(x) /\ IsFinite(y)
         THEN IF y.n = 0
              THEN (IF x.n = 0 THEN NaN ELSE Inf(Sign(x)))
              ELSE Fin(x.n * y.d, x.d * y.n)
    ELSE IF IsFinite(x) THEN Fin(0, 1)
    ELSE IF IsFinite(y) THEN Inf(Sign(x) * (IF Sign(y) < 0 THEN -1 ELSE 1))
    ELSE NaN

\* x < y on floats (false whenever a NaN is involved)
FLt(x, y) ==
    /\ ~IsNaN(x) /\ ~IsNaN(y)
    /\ IF IsFinite(x) /\ IsFinite(y) THEN x.n * y.d < y.n * x.d
       ELSE IF IsFinite(x) THEN Sign(y) > 0
       ELSE IF IsFinite(y) THEN Sign(x) < 0
       ELSE Sign(x) < Sign(y)

FLe(x, y) == ~IsNaN(x) /\ ~IsNaN(y) /\ ~FLt(y, x)

RECURSIVE Log2(_)
Log2(g) == IF g <= 1 THEN 0 ELSE 1 + Log2(g \div 2)

\* np.log in units of ln 2: log(0) = -inf and log(g) = NaN for g < 0, both with
\* a RuntimeWarning only; exact for the powers of two GamesValues holds
np_log(g) ==
    IF g < 0 THEN NaN
    ELSE IF g = 0 THEN NegInf
    ELSE Num(Log2(g))

(***************************************************************************)
(* Columns of the data frame                                               *)
(***************************************************************************)
features_cem == <<"ppg", "rpg", "apg", "spg", "bpg", "to", "fg%", "ft%">>

features_mvp == <<"3p%", "2p%">>

AllFeatures == features_cem \o features_mvp

FeatureSet == {AllFeatures[i] : i \in 1..Len(AllFeatures)}

\* the column f'norm_{col}'
NormCol(col) ==
    CASE col = "ppg" -> "norm_ppg" [] col = "rpg" -> "norm_rpg"
      [] col = "apg" -> "norm_apg" [] col = "spg" -> "norm_spg"
      [] col = "bpg" -> "norm_bpg" [] col = "to" -> "norm_to"
      [] col = "fg%" -> "norm_fg%" [] col = "ft%" -> "norm_ft%"
      [] col = "3p%" -> "norm_3p%" [] col = "2p%" -> "norm_2p%"

NormSet == {NormCol(c) : c \in FeatureSet}

RawColumns == {"player_name", "conference", "games_played", "mp", "Salary"} \cup FeatureSet

ColValues(df, col) == {df[i][col] : i \in 1..Len(df)}

\* Series.min() / Series.max() of an integer-valued column of a non-empty frame
ColMin(df, col) == CHOOSE m \in ColValues(df, col) : \A v \in ColValues(df, col) : m <= v

ColMax(df, col) == CHOOSE m \in ColValues(df, col) : \A v \in ColValues(df, col) : m >= v

\* the weighted sums, as <<weight in hundredths, normalized column>>
CEM_terms ==
    << <<35, "norm_ppg">>, <<20, "norm_rpg">>, <<20, "norm_apg">>, <<5, "norm_spg">>,
       <<5, "norm_bpg">>, <<-10, "norm_to">>, <<10, "norm_fg%">>, <<5, "norm_ft%">> >>

PER_terms ==
    << <<35, "norm_ppg">>, <<20, "norm_rpg">>, <<20, "norm_apg">>, <<5, "norm_spg">>,
       <<5, "norm_bpg">>, <<10, "norm_fg%">>, <<7, "norm_3p%">>, <<5, "norm_2p%">>,
       <<5, "norm_ft%">>, <<-10, "norm_to">> >>

RECURSIVE WeightedSum(_, _, _)
WeightedSum(row, terms, k) ==
    IF k = 1 THEN FMul(Fin(terms[1][1], 100), row[terms[1][2]])
    ELSE FAdd(WeightedSum(row, terms, k - 1), FMul(Fin(terms[k][1], 100), row[terms[k][2]]))

(***************************************************************************)
(* calculate_metrics: batch scoring                                        *)
(***************************************************************************)
RawOf == [nc \in NormSet |-> CHOOSE c \in FeatureSet : NormCol(c) = nc]

\* the column (df[col] - df[col].min()) / (df[col].max() - df[col].min());
\* no guard: a constant column divides 0 by 0
BatchNormalize(df, col) ==
    LET col_min == ColMin(df, col)
        col_max == ColMax(df, col)
    IN  [i \in 1..Len(df) |-> FDiv(Num(df[i][col] - col_min), Num(col_max - col_min))]

\* CEM, Final_CEM, PER_like and MVPCEM of a row that holds its norm_ columns
ScoreColumns(row) ==
    LET cem == WeightedSum(row, CEM_terms, Len(CEM_terms))
        per_like == WeightedSum(row, PER_terms, Len(PER_terms))
        lg == np_log(row["games_played"])
    IN  ("CEM" :> cem) @@ ("Final_CEM" :> FMul(cem, lg)) @@
        ("PER_like" :> per_like) @@ ("MVPCEM" :> FMul(per_like, lg))

calculate_metrics(df) ==
    LET norm == [nc \in NormSet |-> BatchNormalize(df, RawOf[nc])]
    IN  [i \in 1..Len(df) |->
            LET normed == df[i] @@ [nc \in NormSet |-> norm[nc][i]]
            IN  normed @@ ScoreColumns(normed)]

(***************************************************************************)
(* calculate_single_player_metrics: one candidate against a reference set  *)
(***************************************************************************)
\* pd.concat([df, pd.DataFrame([player_data])], ignore_index=True): a new frame
pd_concat(df, player_data) == Append(df, player_data)

\* the guarded normalization of one column of df_combined
SingleNormalize(df_c, col) ==
    LET col_min == ColMin(df_c, col)
        col_max == ColMax(df_c, col)
    IN  IF col_max - col_min > 0
        THEN [i \in 1..Len(df_c) |-> FDiv(Num(df_c[i][col] - col_min), Num(col_max - col_min))]
        ELSE [i \in 1..Len(df_c) |-> Num(0)]

\* both normalization loops: every norm_ column added to df_combined
NormalizeCombined(df_c) ==
    LET norm == [nc \in NormSet |-> SingleNormalize(df_c, RawOf[nc])]
    IN  [i \in 1..Len(df_c) |-> df_c[i] @@ [nc \in NormSet |-> norm[nc][i]]]

\* new_player = df_combined.iloc[-1], then (final_cem, mvpcem)
ScoreLast(df_c) ==
    LET new_player == df_c[Len(df_c)]
        sc == ScoreColumns(new_player)
    IN  <<sc["Final_CEM"], sc["MVPCEM"]>>

calculate_single_player_metrics(player_data, df) ==
    ScoreLast(NormalizeCombined(pd_concat(df, player_data)))

(***************************************************************************)
(* classify_players                                                        *)
(***************************************************************************)
categories == <<"MVP Caliber", "All-NBA Caliber", "All-Star Caliber">>

\* categories[::-1]
Reversed(s) == [i \in 1..Len(s) |-> s[Len(s) + 1 - i]]

Raised(e) == [error |-> e, rows |-> <<>>]

Returned(rows) == [error |-> "", rows |-> rows]

\* row j precedes row i in sort_values(by=metric, ascending=False): larger
\* first, NaN last, equal keys in their original order
Precedes(df, metric, j, i) ==
    LET kj == df[j][metric]
        ki == df[i][metric]
    IN  IF IsNaN(ki) THEN (~IsNaN(kj) \/ j < i)
        ELSE IF IsNaN(kj) THEN FALSE
        ELSE FLt(ki, kj) \/ (ki = kj /\ j < i)

sort_values(df, metric) ==
    LET pos(i) == 1 + Cardinality({j \in 1..Len(df) : j # i /\ Precedes(df, metric, j, i)})
    IN  [p \in 1..Len(df) |-> df[CHOOSE i \in 1..Len(df) : pos(i) = p]]

\* the non-NaN values of a descending series, ascending
AscValues(series) ==
    LET kept == SelectSeq(series, LAMBDA x : ~IsNaN(x))
    IN  Reversed(kept)

\* Series.quantile(k/3), linear interpolation; NaN for an empty series
Quantile(asc, k) ==
    IF Len(asc) = 0 THEN NaN
    ELSE LET pos3 == k * (Len(asc) - 1)
             lo == pos3 \div 3
             hi == IF lo + 1 < Len(asc) THEN lo + 1 ELSE lo
         IN  FAdd(asc[lo + 1], FMul(FSub(asc[hi + 1], asc[lo + 1]), Fin(pos3 % 3, 3)))

\* pd.qcut(series, 3, labels=labels): ValueError when the four bin edges are
\* not distinct; otherwise the label of (e0..e1], (e1..e2], (e2..e3], the
\* lowest edge included
qcut(series, labels) ==
    LET asc == AscValues(series)
        bins == [k \in 0..3 |-> Quantile(asc, k)]
        ids(x) == IF x = bins[0] THEN 1
                  ELSE Cardinality({k \in 0..3 : FLt(bins[k], x)})
        label(x) == IF IsNaN(x) \/ ids(x) = 0 \/ ids(x) = 4 THEN "NaN"
                    ELSE labels[ids(x)]
    IN  IF Cardinality({bins[k] : k \in 0..3}) < 4
        THEN [error |-> "ValueError", labels |-> <<>>]
        ELSE [error |-> "", labels |-> [i \in 1..Len(series) |-> label(series[i])]]

classify_players(df, metric) ==
    LET df_sorted == sort_values(df, metric)
        cut == qcut([i \in 1..Len(df_sorted) |-> df_sorted[i][metric]], Reversed(categories))
    IN  IF cut.error # "" THEN Raised(cut.error)
        ELSE Returned([i \in 1..Len(df_sorted) |->
                          df_sorted[i] @@ ("Category" :> cut.labels[i])])

(***************************************************************************)
(* Text, and the CSV round trip of the player_name column                  *)
(***************************************************************************)
Whitespace == {" "}

RECURSIVE lstrip(_)
lstrip(t) == IF Len(t) > 0 /\ Head(t) \in Whitespace THEN lstrip(Tail(t)) ELSE t

RECURSIVE rstrip(_)
rstrip(t) ==
    IF Len(t) > 0 /\ t[Len(t)] \in Whitespace THEN rstrip(SubSeq(t, 1, Len(t) - 1)) ELSE t

\* str.strip()
strip(t) == rstrip(lstrip(t))

\* the missing value read_csv puts in a column of strings (a float NaN)
NaNName == <<"nan">>

\* the fields pd.read_csv reads as missing (its default na_values)
NaValues ==
    { <<>>, <<"N", "A">>, <<"N", "/", "A">>, <<"n", "/", "a">>, <<"n", "a", "n">>,
      <<"N", "a", "N">>, <<"-", "n", "a", "n">>, <<"-", "N", "a", "N">>,
      <<"N", "U", "L", "L">>, <<"n", "u", "l", "l">>, <<"N", "o", "n", "e">>,
      <<"<", "N", "A", ">">>, <<"#", "N", "A">>, <<"#", "N", "/", "A">>,
      <<"#", "N", "/", "A", " ", "N", "/", "A">>,
      <<"1", ".", "#", "I", "N", "D">>, <<"1", ".", "#", "Q", "N", "A", "N">>,
      <<"-", "1", ".", "#", "I", "N", "D">>, <<"-", "1", ".", "#", "Q", "N", "A", "N">> }

\* the value read_csv gives a player_name field
ParseName(field) == IF field \in NaValues THEN NaNName ELSE field

\* the field to_csv writes for a player_name (na_rep is the empty string)
FormatName(name) == IF name = NaNName THEN <<>> ELSE name

\* pd.read_csv(CSV_PATH); the numeric columns are read back as written
read_csv(file) ==
    [i \in 1..Len(file) |-> [file[i] EXCEPT !["player_name"] = ParseName(@)]]

\* df.to_csv(CSV_PATH, index=False)
to_csv(df) ==
    [i \in 1..Len(df) |-> [df[i] EXCEPT !["player_name"] = FormatName(@)]]

\* a == b on player names: NaN equals nothing
NameEq(a, b) == a # NaNName /\ b # NaNName /\ a = b

\* name in df['player_name'].values
InNames(name, df) == \E i \in 1..Len(df) : NameEq(df[i]["player_name"], name)

(***************************************************************************)
(* The store operations                                                    *)
(***************************************************************************)
\* the file after save_player_to_csv(player_data)
save_player_to_csv(file, player_data) == to_csv(pd_concat(read_csv(file), player_data))

\* the file after delete_player_from_csv(player_name)
delete_player_from_csv(file, player_name) ==
    to_csv(SelectSeq(read_csv(file), LAMBDA r : ~NameEq(r["player_name"], player_name)))

\* the file after update_player_in_csv(original_name, player_data): the first
\* row named original_name is overwritten key by key; no write when none is
update_player_in_csv(file, original_name, player_data) ==
    LET df == read_csv(file)
        idx == {i \in 1..Len(df) : NameEq(df[i]["player_name"], original_name)}
    IN  IF idx # {}
        THEN LET first == CHOOSE i \in idx : \A j \in idx : i <= j
             IN  to_csv([df EXCEPT ![first] = player_data])
        ELSE file

(***************************************************************************)
(* Inputs                                                                  *)
(***************************************************************************)
\* most records the store may hold (the code has no limit)
MaxPlayers == 4

\* largest reference population drawn for the function-level checks
MaxRef == 2

\* a stat line: the positively weighted features, turnovers, 3p% and 2p%
Line(a, t, s) ==
    [c \in FeatureSet |-> IF c = "to" THEN t ELSE IF c \in {"3p%", "2p%"} THEN s ELSE a]

StatLines == {Line(0, 0, 0), Line(1, 1, 1), Line(0, 1, 0), Line(1, 1, 0)}

\* games_played as found in a file: 0 is below the forms' minimum
GamesValues == {0, 1, 2}

MakeRow(name, conference, games_played, line) ==
    ("player_name" :> name) @@ ("conference" :> conference) @@
    ("games_played" :> games_played) @@ ("mp" :> 30) @@ ("Salary" :> 10000000) @@ line

\* what a form can submit: conference, games played (min_value=1) and stats
FormProfiles == { <<"EAST", 1, Line(0, 0, 0)>>, <<"WEST", 2, Line(1, 1, 1)>> }

\* what is typed as a player name
NameInputs == { <<" ">>, <<" ", "a">>, <<"d">>, <<"N", "A">> }

\* the data set the application starts from
InitialDataset ==
    << MakeRow(<<"a">>, "EAST", 2, Line(1, 1, 1)),
       MakeRow(<<"b">>, "WEST", 2, Line(0, 0, 0)),
       MakeRow(<<"c">>, "EAST", 2, Line(0, 1, 0)) >>

RefName(i) == <<"p", CASE i = 1 -> "1" [] i = 2 -> "2" [] i = 3 -> "3" [] OTHER -> "4">>

\* the reference populations and candidates of the function-level checks
RefPopulations ==
    UNION { { [i \in 1..n |-> MakeRow(RefName(i), "EAST", f[i][1], f[i][2])] :
                f \in [1..n -> GamesValues \X StatLines] } : n \in 0..MaxRef }

Candidates == { MakeRow(<<"x">>, "EAST", g, l) : g \in GamesValues, l \in StatLines }

(***************************************************************************)
(* State                                                                   *)
(***************************************************************************)
VARIABLES
    csv,                  \* the rows of AllStar_Dataset.csv, names as written
    cache,                \* st.cache_data's entry for load_data()
    last,                 \* what the last script run did
    scored,               \* the evaluator call of the last script run
    arg_df,               \* the reference frame passed to a calculator
    arg_player,           \* the candidate passed to the single-player calculator
    df_combined,          \* calculate_single_player_metrics' local frame
    single_result,        \* its (final_cem, mvpcem)
    df_metrics,           \* what calculate_metrics returned
    metric,               \* the metric last classified by
    df_classified,        \* what classify_players returned or raised
    pc                    \* the position of the function-level run

appVars == <<csv, cache, last, scored>>

calcVars == <<arg_df, arg_player, df_combined, single_result, df_metrics, metric, df_classified, pc>>

vars == <<csv, cache, last, scored,
          arg_df, arg_player, df_combined, single_result, df_metrics, metric, df_classified, pc>>

NoCache == [valid |-> FALSE, frame |-> <<>>]

Cached(frame) == [valid |-> TRUE, frame |-> frame]

NotRun == [error |-> "not run", rows |-> <<>>]

\* a run: the handler reached, its outcome, the stripped name submitted and
\* the player selected for the edit or the delete
Ran(op, outcome, name, target) ==
    [op |-> op, outcome |-> outcome, name |-> name, target |-> target]

\* no calculate_single_player_metrics call in the run
NotScored == [called |-> FALSE, player |-> <<>>, ref |-> <<>>]

\* calculate_single_player_metrics(player_data, ref) was called: its arguments
\* (the scores it returns are displayed and kept nowhere)
Scored(player_data, ref) == [called |-> TRUE, player |-> player_data, ref |-> ref]

AppIdle ==
    /\ csv = InitialDataset
    /\ cache = NoCache
    /\ last = Ran("start", "none", <<>>, <<>>)
    /\ scored = NotScored

CalcIdle ==
    /\ df_combined = <<>>
    /\ single_result = <<>>
    /\ df_metrics = <<>>
    /\ metric = "Final_CEM"
    /\ df_classified = NotRun

(***************************************************************************)
(* The script run: main()                                                  *)
(***************************************************************************)
\* df = load_data(): the cached frame when there is one, else the file
load_data == IF cache.valid THEN cache.frame ELSE read_csv(csv)

\* df_metrics[df_metrics['conference'] == selected_conference], or all rows
FilterConference(frame, conference) ==
    IF conference # "All"
    THEN SelectSeq(frame, LAMBDA r : r["conference"] = conference)
    ELSE frame

Conferences == {"All", "EAST", "WEST"}

Metrics == {"Final_CEM", "MVPCEM"}

\* lines 206-213 on df_metrics: the run gets past classify_players (an
\* exception ends the script run)
RunReachesTabs(frame_metrics, selected_conference, selected_metric) ==
    classify_players(FilterConference(frame_metrics, selected_conference),
                     selected_metric).error = ""

\* player_list = sorted(df['player_name'].tolist()) raises TypeError when a
\* missing name (a float) is compared with a string
SortedRaises(frame) ==
    /\ \E i \in 1..Len(frame) : frame[i]["player_name"] = NaNName
    /\ \E i \in 1..Len(frame) : frame[i]["player_name"] # NaNName

\* the names the two select boxes offer that select a row
Selectable(frame) ==
    {frame[i]["player_name"] : i \in 1..Len(frame)} \ {NaNName}

\* the sidebar's selections are inputs of every run: some selection lets
\* this run reach the tabs
TabsReachable(frame) ==
    \E frame_metrics \in {calculate_metrics(frame)} :
        \E selected_conference \in Conferences, selected_metric \in Metrics :
            RunReachesTabs(frame_metrics, selected_conference, selected_metric)

\* the entry this run's load_data() call left, not cleared
cache_data_kept == Cached(load_data)

\* st.cache_data.clear() after a write: the next load_data() reads the file
cache_data_clear == NoCache

\* line 321: the insert is scored against df
AddReference(frame) == frame

\* the edit scored against df with nothing excluded
EditReferenceWhole(frame, edit_player) == frame

\* line 442: df[df['player_name'] != edit_player]
EditReference(frame, edit_player) ==
    SelectSeq(frame, LAMBDA r : ~NameEq(r["player_name"], edit_player))

\* a run with no form submitted: a sidebar change or a page refresh
Rerun ==
    \E frame \in {load_data} :
    \E frame_metrics \in {calculate_metrics(frame)} :
        \E selected_conference \in Conferences, selected_metric \in Metrics :
            /\ cache' = Cached(frame)
            /\ last' = Ran("run",
                           IF RunReachesTabs(frame_metrics, selected_conference, selected_metric)
                           THEN "rendered" ELSE "exception", <<>>, <<>>)
            /\ scored' = NotScored
            /\ UNCHANGED <<csv, calcVars>>

\* lines 294-340: the add_player_form is submitted
AddSubmit ==
    /\ TabsReachable(load_data)
    /\ \E player_name \in NameInputs, profile \in FormProfiles :
        LET frame == load_data
            name == strip(player_name)
            player_data == MakeRow(name, profile[1], profile[2], profile[3])
        IN  IF name = <<>>
            THEN /\ last' = Ran("add", "name required", name, <<>>)
                 /\ scored' = NotScored
                 /\ cache' = Cached(frame)
                 /\ csv' = csv
            ELSE IF InNames(name, frame)
            THEN /\ last' = Ran("add", "already exists", name, <<>>)
                 /\ scored' = NotScored
                 /\ cache' = Cached(frame)
                 /\ csv' = csv
            ELSE /\ Len(csv) < MaxPlayers
                 /\ last' = Ran("add", "saved", name, <<>>)
                 /\ scored' = Scored(player_data, AddReference(frame))
                 /\ csv' = save_player_to_csv(csv, player_data)
                 /\ cache' = cache_data_clear
    /\ UNCHANGED calcVars

\* lines 415-457: the edit_player_form of the selected player is submitted
EditSubmit ==
    /\ TabsReachable(load_data)
    /\ ~SortedRaises(load_data)
    /\ \E edit_player \in Selectable(load_data), profile \in FormProfiles :
       \E new_player_name \in NameInputs \cup {edit_player} :
        LET frame == load_data
            name == strip(new_player_name)
            updated_data == MakeRow(name, profile[1], profile[2], profile[3])
        IN  IF name = <<>>
            THEN /\ last' = Ran("edit", "name required", name, edit_player)
                 /\ scored' = NotScored
                 /\ cache' = Cached(frame)
                 /\ csv' = csv
            ELSE IF name # edit_player /\ InNames(name, frame)
            THEN /\ last' = Ran("edit", "already exists", name, edit_player)
                 /\ scored' = NotScored
                 /\ cache' = Cached(frame)
                 /\ csv' = csv
            ELSE /\ last' = Ran("edit", "updated", name, edit_player)
                 /\ scored' = Scored(updated_data, EditReference(frame, edit_player))
                 /\ csv' = update_player_in_csv(csv, edit_player, updated_data)
                 /\ cache' = cache_data_clear
    /\ UNCHANGED calcVars

\* lines 469-496: "Yes, Delete Player" is pressed for the selected player
DeleteConfirm ==
    /\ TabsReachable(load_data)
    /\ ~SortedRaises(load_data)
    /\ \E selected_player \in Selectable(load_data) :
        /\ last' = Ran("delete", "deleted", <<>>, selected_player)
        /\ scored' = NotScored
        /\ csv' = delete_player_from_csv(csv, selected_player)
        /\ cache' = cache_data_clear
    /\ UNCHANGED calcVars

Init ==
    /\ AppIdle
    /\ CalcIdle
    /\ arg_df = <<>>
    /\ arg_player = <<>>
    /\ pc = "idle"

Next ==
    \/ Rerun
    \/ AddSubmit
    \/ EditSubmit
    \/ DeleteConfirm

Spec == Init /\ [][Next]_vars

(***************************************************************************)
(* The calculators and the classifier, run on drawn arguments              *)
(***************************************************************************)
CalcInit ==
    /\ AppIdle
    /\ CalcIdle
    /\ arg_df \in RefPopulations
    /\ arg_player \in Candidates
    /\ pc = "concat"

\* the candidate row appended to df itself (df_combined an alias of df)
SingleConcatInPlace ==
    /\ pc = "concat"
    /\ df_combined' = pd_concat(arg_df, arg_player)
    /\ arg_df' = df_combined'
    /\ pc' = "normalize"
    /\ UNCHANGED <<arg_player, single_result, df_metrics, metric, df_classified, appVars>>

\* line 96: df_combined is a new frame, df is left as it was
SingleConcat ==
    /\ pc = "concat"
    /\ df_combined' = pd_concat(arg_df, arg_player)
    /\ pc' = "normalize"
    /\ UNCHANGED <<arg_df, arg_player, single_result, df_metrics, metric, df_classified, appVars>>

\* lines 98-115: the norm_ columns are added to df_combined
SingleNormalizeStep ==
    /\ pc = "normalize"
    /\ df_combined' = NormalizeCombined(df_combined)
    /\ pc' = "score"
    /\ UNCHANGED <<arg_df, arg_player, single_result, df_metrics, metric, df_classified, appVars>>

\* lines 117-135: the candidate's scores are returned
SingleScore ==
    /\ pc = "score"
    /\ single_result' = ScoreLast(df_combined)
    /\ pc' = "batch"
    /\ UNCHANGED <<arg_df, arg_player, df_combined, df_metrics, metric, df_classified, appVars>>

\* calculate_metrics on the reference frame, or on it with the candidate appended
BatchScore ==
    /\ pc = "batch"
    /\ \E population \in {arg_df, pd_concat(arg_df, arg_player)} :
          df_metrics' = calculate_metrics(population)
    /\ pc' = "classify"
    /\ UNCHANGED <<arg_df, arg_player, df_combined, single_result, metric, df_classified, appVars>>

\* no metric of the frame is infinite (qcut on infinities is not modelled)
NoInfinity(frame) ==
    \A i \in 1..Len(frame) : \A m \in Metrics : frame[i][m].kind # "inf"

\* classify_players on the scored frame
Classify ==
    /\ pc = "classify"
    /\ NoInfinity(df_metrics)
    /\ \E selected_metric \in Metrics :
          /\ metric' = selected_metric
          /\ df_classified' = classify_players(df_metrics, selected_metric)
    /\ pc' = "done"
    /\ UNCHANGED <<arg_df, arg_player, df_combined, single_result, df_metrics, appVars>>

CalcNext ==
    \/ SingleConcat
    \/ SingleNormalizeStep
    \/ SingleScore
    \/ BatchScore
    \/ Classify

CalcSpec == CalcInit /\ [][CalcNext]_vars

(***************************************************************************)
(* Properties of the store (checked under Spec)                            *)
(***************************************************************************)
\* the player_name fields of the file
StoredNames(file) == {file[i]["player_name"] : i \in 1..Len(file)}

\* C1: after any sequence of inserts, edits and deletes no two stored records
\* have the same player_name
C1_NamesUnique ==
    \A i, j \in 1..Len(csv) : i # j => csv[i]["player_name"] # csv[j]["player_name"]

\* C7: an insert of a name the store holds, or an edit renaming a record to a
\* name another record holds, is rejected and leaves the store as it was
C7_DuplicateRejected ==
    [][ (last'.op \in {"add", "edit"} /\ last'.name # <<>> /\ last'.name # last'.target
           /\ last'.name \in StoredNames(csv))
        => (last'.outcome = "already exists" /\ csv' = csv)
      ]_vars

(***************************************************************************)
(* Properties of the calculators and the classifier (checked under         *)
(* CalcSpec)                                                               *)
(***************************************************************************)
SingleReturned == single_result # <<>>

BatchReturned == pc \in {"classify", "done"}

\* the batch scored the reference frame with the candidate appended
BatchOnExtended == BatchReturned /\ Len(df_metrics) = Len(arg_df) + 1

ConstantColumn(frame, col) == Cardinality(ColValues(frame, col)) = 1

OneTier(row) == row["Category"] \in {categories[k] : k \in 1..Len(categories)}

\* the rows of a frame without the columns a function added
RawRows(frame) == [i \in 1..Len(frame) |-> [c \in RawColumns |-> frame[i][c]]]

\* s is t reordered
IsPermutation(s, t) ==
    /\ Len(s) = Len(t)
    /\ \A x \in {s[i] : i \in 1..Len(s)} \cup {t[i] : i \in 1..Len(t)} :
          Cardinality({i \in 1..Len(s) : s[i] = x}) = Cardinality({i \in 1..Len(t) : t[i] = x})

FiniteMetric(frame, m) == \A i \in 1..Len(frame) : IsFinite(frame[i][m])

\* C2: a scored population of 3 or more records (its metric values finite) is
\* returned by classify_players record for record, each with exactly one tier
C2_ClassifyPartitions ==
    (pc = "done" /\ Len(df_metrics) >= 3 /\ FiniteMetric(df_metrics, metric))
    => /\ df_classified.error = ""
       /\ IsPermutation(RawRows(df_classified.rows), RawRows(df_metrics))
       /\ \A i \in 1..Len(df_classified.rows) : OneTier(df_classified.rows[i])

\* C3: the single-candidate scores equal the batch scores of the last row of
\* the reference frame with the candidate appended
C3_SingleEqualsBatch ==
    (SingleReturned /\ BatchOnExtended)
    => single_result = <<df_metrics[Len(df_metrics)]["Final_CEM"],
                         df_metrics[Len(df_metrics)]["MVPCEM"]>>

\* C4: a feature whose max equals its min over the scored population is
\* normalized to 0 for every record, by the batch and by the single calculator
C4_DegenerateNormIsZero ==
    /\ BatchReturned =>
         \A col \in FeatureSet : ConstantColumn(df_metrics, col) =>
             \A i \in 1..Len(df_metrics) : df_metrics[i][NormCol(col)] = Num(0)
    /\ SingleReturned =>
         \A col \in FeatureSet : ConstantColumn(df_combined, col) =>
             \A i \in 1..Len(df_combined) : df_combined[i][NormCol(col)] = Num(0)

\* C5: no calculator returns a score for a record with games_played < 1
C5_GamesBelowOneRejected ==
    /\ BatchReturned => \A i \in 1..Len(df_metrics) : df_metrics[i]["games_played"] >= 1
    /\ SingleReturned => arg_player["games_played"] >= 1

\* C6: classify_players returns no tier assignment for fewer than 3 records
C6_SmallPopulationRaises ==
    (pc = "done" /\ Len(df_metrics) < 3) => df_classified.error # ""

\* C8: calculate_single_player_metrics leaves the reference frame as it was:
\* the same rows, the same values, no candidate row and no norm_ column
C8_ReferenceUnmutated ==
    [][ (pc \in {"concat", "normalize", "score"})
        => (arg_df' = arg_df /\ \A i \in 1..Len(arg_df') : DOMAIN arg_df'[i] = RawColumns)
      ]_vars

\* the single calculator ran on a non-empty reference frame: its local frame
\* holds the candidate row and the norm_ columns
C8_Witness ==
    /\ SingleReturned
    /\ Len(arg_df) >= 1
    /\ Len(df_combined) = Len(arg_df) + 1
    /\ \A i \in 1..Len(df_combined) : NormSet \subseteq DOMAIN df_combined[i]

InUnitInterval(x) == IsFinite(x) /\ FLe(Num(0), x) /\ FLe(x, Num(1))

\* C9: every normalized value lies in [0,1], in both calculators
C9_NormalizedInUnitInterval ==
    /\ BatchReturned =>
         \A i \in 1..Len(df_metrics) : \A nc \in NormSet : InUnitInterval(df_metrics[i][nc])
    /\ SingleReturned =>
         \A i \in 1..Len(df_combined) : \A nc \in NormSet : InUnitInterval(df_combined[i][nc])

\* C10: a record with games_played = 1 scores exactly 0 on both metrics, in
\* both calculators
C10_OneGameScoresZero ==
    /\ BatchReturned =>
         \A i \in 1..Len(df_metrics) : df_metrics[i]["games_played"] = 1 =>
             (df_metrics[i]["Final_CEM"] = Num(0) /\ df_metrics[i]["MVPCEM"] = Num(0))
    /\ (SingleReturned /\ arg_player["games_played"] = 1)
         => single_result = <<Num(0), Num(0)>>

\* the metric values of a frame, as classify_players sorts them
MetricColumn(frame, m) ==
    LET sorted == sort_values(frame, m)
    IN  [i \in 1..Len(sorted) |-> sorted[i][m]]

\* the cut at the k-th third of the metric's distribution
Cut(frame, m, k) == Quantile(AscValues(MetricColumn(frame, m)), k)

SortedDescending(rows, m) ==
    \A i, j \in 1..Len(rows) : i < j => FLe(rows[j][m], rows[i][m])

\* above the upper cut MVP Caliber, between the cuts All-NBA Caliber, below
\* the lower cut All-Star Caliber
TieredByCuts(rows, frame, m) ==
    \A i \in 1..Len(rows) :
        LET x == rows[i][m]
        IN  /\ FLt(Cut(frame, m, 2), x) => rows[i]["Category"] = "MVP Caliber"
            /\ (FLt(Cut(frame, m, 1), x) /\ FLt(x, Cut(frame, m, 2)))
                  => rows[i]["Category"] = "All-NBA Caliber"
            /\ FLt(x, Cut(frame, m, 1)) => rows[i]["Category"] = "All-Star Caliber"

TierRank(label) ==
    CASE label = "MVP Caliber" -> 3
      [] label = "All-NBA Caliber" -> 2
      [] label = "All-Star Caliber" -> 1
      [] OTHER -> 0

\* no record has a strictly higher metric than a record of a higher tier
TiersMonotone(rows, m) ==
    \A i, j \in 1..Len(rows) :
        TierRank(rows[i]["Category"]) > TierRank(rows[j]["Category"])
            => ~FLt(rows[i][m], rows[j][m])

\* C11: a scored population of 3 or more records (its metric values finite) is
\* returned sorted descending by the metric, tiered by the cuts at the thirds
\* of the metric's distribution, no record above a record of a higher tier
C11_SortedAndTieredByCuts ==
    (pc = "done" /\ Len(df_metrics) >= 3 /\ FiniteMetric(df_metrics, metric))
    => /\ df_classified.error = ""
       /\ SortedDescending(df_classified.rows, metric)
       /\ TieredByCuts(df_classified.rows, df_metrics, metric)
       /\ TiersMonotone(df_classified.rows, metric)

(***************************************************************************)
(* Properties of the script run (checked under Spec)                       *)
(***************************************************************************)
\* the population the file holds, as a run reads it
CurrentPopulation == read_csv(csv)

\* the records of a frame not named name, in the frame's order
Without(frame, name) ==
    LET keep == {i \in 1..Len(frame) : frame[i]["player_name"] # name}
        nth(k) == CHOOSE i \in keep : Cardinality({j \in keep : j < i}) = k - 1
    IN  [k \in 1..Cardinality(keep) |-> frame[nth(k)]]

\* C12: an edit of player P is scored against the current population without
\* the records named P, all others kept; an insert is scored against the whole
\* current population
C12_ReferenceSet ==
    [][ /\ (scored'.called /\ last'.op = "edit")
            => scored'.ref = Without(CurrentPopulation, last'.target)
        /\ (scored'.called /\ last'.op = "add")
            => scored'.ref = CurrentPopulation
      ]_vars

\* an edit renaming a player was scored: the player's prior record is not in
\* the reference set, the two other records are
C12_Witness ==
    /\ scored.called
    /\ last.op = "edit"
    /\ last.name # last.target
    /\ Len(scored.ref) = 2
    /\ \A i \in 1..Len(scored.ref) : scored.ref[i]["player_name"] # last.target
    /\ scored.player["player_name"] = last.name

\* C13: after every insert, update or delete the next load_data call returns
\* the file's current content, never a snapshot from before the write
C13_NextLoadIsCurrent == load_data = CurrentPopulation

\* a run loaded the data set after a write changed the file: the cache holds
\* the changed population
C13_Witness ==
    /\ last.op = "run"
    /\ csv # InitialDataset
    /\ cache.valid
    /\ cache.frame = CurrentPopulation

====
